---- MODULE Spec2Model ----
(***************************************************************************)
(* Model of examples/app/downloads/downloads.py: the installers event log, *)
(* the InstallersModel form, and DownloadsApp's recomputation of the two   *)
(* column data sources (downloads time series and hour/weekday punchcard)  *)
(* on every change of a form field.                                        *)
(***************************************************************************)
EXTENDS Integers, Sequences, FiniteSets, TLC

\* Bounds of the exploration.
MaxQueue == 2
MaxChanges == 2

VARIABLES installers, modelform, downloads_source, punchcard_source,
          downloads_plot, punchcard_plot, selected, error,
          inbox, nchanges, f_last

vars == <<installers, modelform, downloads_source, punchcard_source,
          downloads_plot, punchcard_plot, selected, error,
          inbox, nchanges, f_last>>

----------------------------------------------------------------------------
\* Calendar arithmetic of pd.to_datetime(df.timestamp, unit='s').

\* Proleptic Gregorian date <<year, month, day>> of a day number counted
\* from 1970-01-01.
civil_from_days(days) ==
    LET z   == days + 719468
        era == z \div 146097
        doe == z - era * 146097
        yoe == (doe - (doe \div 1460) + (doe \div 36524) - (doe \div 146096)) \div 365
        doy == doe - (365 * yoe + (yoe \div 4) - (yoe \div 100))
        mp  == (5 * doy + 2) \div 153
        d   == doy - ((153 * mp + 2) \div 5) + 1
        m   == IF mp < 10 THEN mp + 3 ELSE mp - 9
        y   == yoe + era * 400 + (IF m <= 2 THEN 1 ELSE 0)
    IN  <<y, m, d>>

\* The pandas Timestamp of a count of unix seconds.
to_datetime(ts) ==
    LET days == ts \div 86400
        rem  == ts % 86400
        ymd  == civil_from_days(days)
    IN  [year |-> ymd[1], month |-> ymd[2], day |-> ymd[3],
         hour |-> rem \div 3600,
         minute |-> (rem % 3600) \div 60,
         second |-> rem % 60,
         dayofweek |-> (days + 3) % 7]

\* Timestamp.date(): the calendar date of a Timestamp.
date_of(x) == <<x.year, x.month, x.day>>

\* Lexicographic order on tuples of equal length.
LexLess(a, b) ==
    \E i \in 1..Len(a) : a[i] < b[i] /\ \A j \in 1..(i-1) : a[j] = b[j]

\* Comparison of a Timestamp with a datetime.date: the date is taken as
\* the Timestamp of its midnight.
TimestampKey(x) == <<x.year, x.month, x.day, x.hour, x.minute, x.second>>
MidnightKey(d) == <<d[1], d[2], d[3], 0, 0, 0>>
timestamp_ge_date(x, d) == ~LexLess(TimestampKey(x), MidnightKey(d))
timestamp_le_date(x, d) == ~LexLess(MidnightKey(d), TimestampKey(x))

----------------------------------------------------------------------------
\* The event log.

Row(idx, ts, ev, pl, ar) ==
    [index |-> idx, timestamp |-> ts, event |-> ev, platform |-> pl, arch |-> ar]

\* Raw rows of data/installers.internalpanel.data.log (three sample logs;
\* timestamps are not sorted).
RawLogs ==
    { \* 2024-02-15 13:00 Thu, 2024-01-01 00:00 Mon, 2024-01-01 10:00 Mon
      << Row(0, 1708002000, "A", "win", "x64"),
         Row(1, 1704067200, "A", "win", "x64"),
         Row(2, 1704103200, "B", "linux", "x86") >>,
      \* every event at hour 10 on a Monday: 2024-01-01 10:00, 2023-12-25 10:30
      << Row(0, 1704103200, "A", "win", "x64"),
         Row(1, 1703500200, "A", "win", "x64") >>,
      \* 2024-01-20 10:00 Sat, 2023-12-25 10:00 Mon, 2024-01-01 10:00 Mon,
      \* 2024-02-15 13:00 Thu, 2024-01-01 10:59:59 Mon
      << Row(0, 1705744800, "A", "linux", "x64"),
         Row(1, 1703498400, "B", "win", "x64"),
         Row(2, 1704103200, "A", "win", "x86"),
         Row(3, 1708002000, "B", "win", "x64"),
         Row(4, 1704106799, "B", "win", "x64") >> }

\* load_csv: read the rows and add the "date" column.
load_csv(raw) ==
    [i \in DOMAIN raw |->
        [index |-> raw[i].index, timestamp |-> raw[i].timestamp,
         event |-> raw[i].event, platform |-> raw[i].platform,
         arch |-> raw[i].arch, date |-> to_datetime(raw[i].timestamp)]]

----------------------------------------------------------------------------
\* Sorting and grouping.

\* Python's order on the strings that occur in the logs.
StringOrder == <<"A", "B", "linux", "win", "x64", "x86">>
StringRank(s) == CHOOSE i \in 1..Len(StringOrder) : StringOrder[i] = s

\* sorted(column.unique())
RECURSIVE sorted_unique(_)
sorted_unique(S) ==
    IF S = {} THEN <<>>
    ELSE LET m == CHOOSE x \in S : \A y \in S : StringRank(x) <= StringRank(y)
         IN  <<m>> \o sorted_unique(S \ {m})

Range(f) == { f[i] : i \in DOMAIN f }

\* Keys of a groupby in ascending order (groupby sorts its group keys).
\* The same keys in descending order.
RECURSIVE SortedKeys_descending(_)
SortedKeys_descending(S) ==
    IF S = {} THEN <<>>
    ELSE LET m == CHOOSE x \in S : \A y \in S : y = x \/ LexLess(y, x)
         IN  <<m>> \o SortedKeys_descending(S \ {m})

RECURSIVE SortedKeys(_)
SortedKeys(S) ==
    IF S = {} THEN <<>>
    ELSE LET m == CHOOSE x \in S : \A y \in S : y = x \/ LexLess(x, y)
         IN  <<m>> \o SortedKeys(S \ {m})

\* groupby(keys).size(): one entry per distinct key, keys ascending.
groupby_size(keys) ==
    LET idx == SortedKeys(Range(keys))
    IN  [index  |-> idx,
         values |-> [i \in 1..Len(idx) |->
                        Cardinality({ j \in DOMAIN keys : keys[j] = idx[i] })]]

\* Series.max() of a non-empty sequence of counts.
series_max(values) ==
    CHOOSE m \in Range(values) : \A v \in Range(values) : v <= m

----------------------------------------------------------------------------
\* InstallersModel: the allowed values and defaults of the form fields,
\* derived from the loaded log.

date_min(store) ==
    LET i == CHOOSE i \in DOMAIN store : \A j \in DOMAIN store :
                 ~LexLess(TimestampKey(store[j].date), TimestampKey(store[i].date))
    IN  store[i].date

date_max(store) ==
    LET i == CHOOSE i \in DOMAIN store : \A j \in DOMAIN store :
                 ~LexLess(TimestampKey(store[i].date), TimestampKey(store[j].date))
    IN  store[i].date

\* The installer values taken from a log other than the installers log.
installer_allowed_other_log(store) == <<"All", "A", "B", "bogus">>

installer_allowed(store) ==
    <<"All">> \o sorted_unique({ store[i].event : i \in DOMAIN store })
resolution_allowed == <<"daily", "monthly", "yearly">>
platform_allowed(store) ==
    <<"All">> \o sorted_unique({ store[i].platform : i \in DOMAIN store })
arch_allowed(store) ==
    <<"All">> \o sorted_unique({ store[i].arch : i \in DOMAIN store })
start_default(store) == date_of(date_min(store))
end_default(store) == date_of(date_max(store))

\* The form after InstallersModel(): every field at its default.
InstallersModel(store) ==
    [installer  |-> installer_allowed(store)[1],
     resolution |-> "monthly",
     platform   |-> platform_allowed(store)[1],
     arch       |-> arch_allowed(store)[1],
     start      |-> start_default(store),
     end        |-> end_default(store)]

----------------------------------------------------------------------------
\* DownloadsApp.update_data, step by step.

filter_start(sel, start) ==
    SelectSeq(sel, LAMBDA r : timestamp_ge_date(r.date, start))
filter_end(sel, end) ==
    SelectSeq(sel, LAMBDA r : timestamp_le_date(r.date, end))
filter_installer(sel, installer) ==
    IF installer # "All" THEN SelectSeq(sel, LAMBDA r : r.event = installer) ELSE sel
\* The platform filter testing the arch column.
filter_platform_wrong_column(sel, platform) ==
    IF platform # "All" THEN SelectSeq(sel, LAMBDA r : r.arch = platform) ELSE sel

filter_platform(sel, platform) ==
    IF platform # "All" THEN SelectSeq(sel, LAMBDA r : r.platform = platform) ELSE sel
filter_arch(sel, arch) ==
    IF arch # "All" THEN SelectSeq(sel, LAMBDA r : r.arch = arch) ELSE sel

\* Lines 136-151: the rows left after all filters.
select_rows(store, mf) ==
    filter_arch(
      filter_platform(
        filter_installer(
          filter_end(filter_start(store, mf.start), mf.end),
          mf.installer),
        mf.platform),
      mf.arch)

\* The bucket date of a Timestamp under a resolution.
fn(resolution, x) ==
    CASE resolution = "daily"   -> <<x.year, x.month, x.day>>
      [] resolution = "monthly" -> <<x.year, x.month, 1>>
      [] resolution = "yearly"  -> <<x.year, 1, 1>>

\* downloads = selected.groupby(dates).size()
downloads_series(sel, resolution) ==
    groupby_size([i \in DOMAIN sel |-> fn(resolution, sel[i].date)])

\* counts = selected.groupby([hours, daysofweek]).size()
punchcard_counts(sel) ==
    groupby_size([i \in DOMAIN sel |-> <<sel[i].date.hour, sel[i].date.dayofweek>>])

\* The percentages taken against the smallest count.
punchcard_percentages_by_min(values) ==
    [i \in DOMAIN values |->
        [num |-> values[i],
         den |-> CHOOSE m \in Range(values) : \A v \in Range(values) : m <= v]]

\* percentages = counts.astype(float)/counts.max(), kept as exact fractions.
punchcard_percentages(values) ==
    [i \in DOMAIN values |-> [num |-> values[i], den |-> series_max(values)]]

publish_downloads(source, downloads) ==
    [source EXCEPT !.data.dates = downloads.index,
                   !.data.downloads = downloads.values,
                   !.dirty = TRUE]

\* The punchcard source left as it was.
publish_punchcard_skipped(source, counts) == source

publish_punchcard(source, counts) ==
    [source EXCEPT !.data.counts = counts.values,
                   !.data.percentages = punchcard_percentages(counts.values),
                   !.dirty = TRUE]

\* The recomputation reading the form as it was before the change.
update_data_before_change(mf) ==
    \E sel \in {select_rows(installers, modelform)} :
    \E downloads \in {downloads_series(sel, modelform.resolution)} :
    \E counts \in {punchcard_counts(sel)} :
        /\ selected' = sel
        /\ downloads_source' = publish_downloads(downloads_source, downloads)
        /\ punchcard_source' = publish_punchcard(punchcard_source, counts)

update_data(mf) ==
    \E sel \in {select_rows(installers, mf)} :
    \E downloads \in {downloads_series(sel, mf.resolution)} :
    \E counts \in {punchcard_counts(sel)} :
        /\ selected' = sel
        /\ downloads_source' = publish_downloads(downloads_source, downloads)
        /\ punchcard_source' = publish_punchcard(punchcard_source, counts)

----------------------------------------------------------------------------
\* DownloadsApp.create: the sources as constructed, then filled once.

Hours == 24
DayNames == <<"Monday", "Tuesday", "Wednesday", "Thursday", "Friday",
              "Saturday", "Sunday">>

empty_downloads_source ==
    [data |-> [dates |-> <<>>, downloads |-> <<>>], dirty |-> FALSE]

empty_punchcard_source ==
    [data |-> [counts |-> <<>>, percentages |-> <<>>,
               hours |-> [i \in 1..(Hours * Len(DayNames)) |->
                            ToString((i - 1) \div Len(DayNames))],
               days  |-> [i \in 1..(Hours * Len(DayNames)) |->
                            DayNames[((i - 1) % Len(DayNames)) + 1]]],
     dirty |-> FALSE]

plot_title(kind, mf) == <<mf.installer, kind>>

Init ==
    /\ installers \in { load_csv(raw) : raw \in RawLogs }
    /\ modelform = InstallersModel(installers)
    /\ selected = select_rows(installers, modelform)
    /\ downloads_source =
          publish_downloads(empty_downloads_source,
                            downloads_series(selected, modelform.resolution))
    /\ punchcard_source =
          publish_punchcard(empty_punchcard_source, punchcard_counts(selected))
    /\ downloads_plot = [title |-> plot_title("downloads", modelform)]
    /\ punchcard_plot = [title |-> plot_title("punchcard", modelform)]
    /\ error = "none"
    /\ inbox = <<>>
    /\ nchanges = 0
    /\ f_last = modelform

----------------------------------------------------------------------------
\* Changes of form fields, as sent by the widgets of input_specs.

SelectInputs ==
    [installer  |-> {"All", "A", "B", "bogus"},
     resolution |-> {"daily", "monthly", "yearly", "hourly"},
     platform   |-> {"All", "win", "linux", "bogus"},
     arch       |-> {"All", "x64", "x86", "bogus"}]

DateInputs == { <<2023, 12, 25>>, <<2024, 1, 1>>, <<2024, 1, 20>>, <<2024, 2, 15>> }

\* Enum validation of a value assigned to a field.
allowed_values(store, attrname) ==
    CASE attrname = "installer"  -> Range(installer_allowed(store))
      [] attrname = "resolution" -> Range(resolution_allowed)
      [] attrname = "platform"   -> Range(platform_allowed(store))
      [] attrname = "arch"       -> Range(arch_allowed(store))

is_valid(store, attrname, new) ==
    IF attrname \in {"start", "end"} THEN TRUE
    ELSE new \in allowed_values(store, attrname)

send_change(attrname, new) ==
    /\ nchanges < MaxChanges
    /\ Len(inbox) < MaxQueue
    /\ inbox' = Append(inbox, [attrname |-> attrname, new |-> new])
    /\ nchanges' = nchanges + 1
    /\ f_last' = IF is_valid(installers, attrname, new)
                 THEN [f_last EXCEPT ![attrname] = new] ELSE f_last
    /\ UNCHANGED <<installers, modelform, downloads_source, punchcard_source,
                   downloads_plot, punchcard_plot, selected, error>>

\* A Select widget sends a new value of an enum field.
select_change ==
    \E attrname \in DOMAIN SelectInputs : \E new \in SelectInputs[attrname] :
        send_change(attrname, new)

\* A DatePicker sends a new date; start is bounded below by min_date and
\* end above by max_date.
datepicker_change ==
    \/ \E new \in DateInputs :
          /\ ~LexLess(new, start_default(installers))
          /\ send_change("start", new)
    \/ \E new \in DateInputs :
          /\ ~LexLess(end_default(installers), new)
          /\ send_change("end", new)

\* The field accepts the value and the on-change callback runs.
input_change ==
    /\ inbox # <<>>
    /\ LET msg == Head(inbox)
           mf  == [modelform EXCEPT ![msg.attrname] = msg.new]
       IN  /\ is_valid(installers, msg.attrname, msg.new)
           /\ modelform' = mf
           /\ update_data(mf)
           /\ downloads_plot' = [downloads_plot EXCEPT !.title = plot_title("downloads", mf)]
           /\ punchcard_plot' = [punchcard_plot EXCEPT !.title = plot_title("punchcard", mf)]
    /\ error' = "none"
    /\ inbox' = Tail(inbox)
    /\ UNCHANGED <<installers, nchanges, f_last>>

\* The field refuses a value outside its allowed values; no callback runs.
invalid_value ==
    /\ inbox # <<>>
    /\ LET msg == Head(inbox)
       IN  ~is_valid(installers, msg.attrname, msg.new)
    /\ error' = "ValueError"
    /\ inbox' = Tail(inbox)
    /\ UNCHANGED <<installers, modelform, downloads_source, punchcard_source,
                   downloads_plot, punchcard_plot, selected, nchanges, f_last>>

Next ==
    \/ select_change
    \/ datepicker_change
    \/ input_change
    \/ invalid_value

Spec == Init /\ [][Next]_vars

\* The server handles every change it has received.
FairSpec == Spec /\ WF_vars(input_change) /\ WF_vars(invalid_value)

TypeOK ==
    /\ Len(inbox) <= MaxQueue
    /\ nchanges <= MaxChanges
    /\ error \in {"none", "ValueError"}

----------------------------------------------------------------------------
\* Vocabulary of the properties.

Rows(sel) == Range(sel)

RECURSIVE SumSeq(_)
SumSeq(q) == IF q = <<>> THEN 0 ELSE Head(q) + SumSeq(Tail(q))

Cells == 1..(Hours * 7)
CellHour(i) == (i - 1) \div 7
CellWeekday(i) == (i - 1) % 7

\* Number of selected events in the grid cell of hour h and weekday d.
EventsInCell(h, d) ==
    Cardinality({ j \in DOMAIN selected :
                    selected[j].date.hour = h /\ selected[j].date.dayofweek = d })

DateLE(a, b) == a = b \/ LexLess(a, b)

EnumPredicates(f, r) ==
    /\ f.installer = "All" \/ r.event = f.installer
    /\ f.platform = "All" \/ r.platform = f.platform
    /\ f.arch = "All" \/ r.arch = f.arch

BucketDate(resolution, x) ==
    IF resolution = "daily" THEN <<x.year, x.month, x.day>>
    ELSE IF resolution = "monthly" THEN <<x.year, x.month, 1>>
    ELSE <<x.year, 1, 1>>

\* The pair of datasets computed from one filter state.
PairOf(f) ==
    LET sel == select_rows(installers, f)
        ts  == downloads_series(sel, f.resolution)
        pc  == punchcard_counts(sel)
    IN  [dates |-> ts.index, downloads |-> ts.values,
         counts |-> pc.values, percentages |-> punchcard_percentages(pc.values)]

PublishedPair ==
    [dates |-> downloads_source.data.dates,
     downloads |-> downloads_source.data.downloads,
     counts |-> punchcard_source.data.counts,
     percentages |-> punchcard_source.data.percentages]

----------------------------------------------------------------------------
\* C1: after every recomputation the published punchcard has exactly 168
\* cells, one per (hour, weekday) pair, with count 0 for the pairs no
\* selected event falls into.
C1_DensePunchcard ==
    /\ Len(punchcard_source.data.counts) = Hours * 7
    /\ Len(punchcard_source.data.percentages) = Hours * 7
    /\ \A i \in Cells :
          EventsInCell(CellHour(i), CellWeekday(i)) = 0
             => punchcard_source.data.counts[i] = 0

\* C2: the published (TimeSeries, Punchcard) pair is always the pair
\* computed from one and the same filter snapshot, the one update_data read;
\* both datasets count the same selected events.
C2_PairFromOneSnapshot ==
    /\ PublishedPair = PairOf(modelform)
    /\ SumSeq(downloads_source.data.downloads) = Len(selected)
    /\ SumSeq(punchcard_source.data.counts) = Len(selected)
    /\ downloads_source.dirty = punchcard_source.dirty

\* C2 witness: a pair published by a recomputation is observable while a
\* further change is already waiting.
C2_Witness ==
    /\ nchanges >= 2
    /\ Len(inbox) = 1
    /\ modelform # InstallersModel(installers)
    /\ selected # <<>>

\* C3: after finitely many changes the controller ends up idle with the
\* published pair computed from the last filter state the user set.
C3_SettlesOnLast ==
    <>[](inbox = <<>> /\ modelform = f_last /\ PublishedPair = PairOf(f_last))

\* C3 witness: idle again after two changes were sent back to back.
C3_Witness ==
    /\ inbox = <<>>
    /\ nchanges >= 2
    /\ modelform = f_last
    /\ f_last.installer # "All"
    /\ f_last.resolution # "monthly"
    /\ PublishedPair = PairOf(f_last)

\* C4: the date-range filter keeps exactly the events whose calendar date d
\* satisfies start <= d <= end, whatever their time of day.
C4_DateRangeByCalendarDate ==
    \A r \in Rows(installers) :
        r \in Rows(selected) <=>
            /\ DateLE(modelform.start, date_of(r.date))
            /\ DateLE(date_of(r.date), modelform.end)
            /\ EnumPredicates(modelform, r)

\* C5: the published counts are aligned with the grid labels in hour-major
\* order: counts[i] is the number of selected events in the cell labelled
\* (hours[i], days[i]), that is hour i div 7 and weekday i mod 7.
C5_HourMajorAligned ==
    \A i \in Cells :
        /\ punchcard_source.data.hours[i] = ToString(CellHour(i))
        /\ punchcard_source.data.days[i] = DayNames[CellWeekday(i) + 1]
        /\ i \in DOMAIN punchcard_source.data.counts
        /\ punchcard_source.data.counts[i] = EventsInCell(CellHour(i), CellWeekday(i))

\* C6: when no event is selected, recomputation publishes an empty time
\* series and 168 cells of count 0 and percentage 0 (update_data has no
\* error exit, so no error is raised on the way).
C6_EmptySelection ==
    selected = <<>> =>
        /\ downloads_source.data.dates = <<>>
        /\ downloads_source.data.downloads = <<>>
        /\ \A i \in Cells :
              /\ i \in DOMAIN punchcard_source.data.counts
              /\ punchcard_source.data.counts[i] = 0
              /\ i \in DOMAIN punchcard_source.data.percentages
              /\ punchcard_source.data.percentages[i].num = 0

\* C7: every published percentage is count / max_count with max_count the
\* largest published count, lies in [0, 1], and some cell has percentage
\* exactly 1 whenever max_count > 0.
C7_NormalizationBound ==
    LET c == punchcard_source.data.counts
        p == punchcard_source.data.percentages
    IN  /\ DOMAIN p = DOMAIN c
        /\ \A i \in DOMAIN p :
              /\ p[i].num = c[i]
              /\ \A j \in DOMAIN c : c[j] <= p[i].den
              /\ \E j \in DOMAIN c : c[j] = p[i].den
              /\ p[i].den > 0
              /\ 0 <= p[i].num
              /\ p[i].num <= p[i].den
        /\ (c # <<>> /\ \E j \in DOMAIN c : c[j] > 0)
              => \E i \in DOMAIN p : p[i].num = p[i].den

\* C7 witness: after a change, one cell at percentage 1 and another strictly
\* between 0 and 1.
C7_Witness ==
    LET p == punchcard_source.data.percentages
    IN  /\ nchanges > 0
        /\ inbox = <<>>
        /\ error = "none"
        /\ \E i \in DOMAIN p : p[i].num = p[i].den
        /\ \E i \in DOMAIN p : 0 < p[i].num /\ p[i].num < p[i].den

\* C8: the time series has one pair per bucket date that some selected event
\* maps to, each count is the number of those events and at least 1, the
\* dates are strictly ascending, and the counts sum to the size of selected.
C8_SparseTimeSeries ==
    LET d == downloads_source.data.dates
        n == downloads_source.data.downloads
        b(j) == BucketDate(modelform.resolution, selected[j].date)
    IN  /\ Len(d) = Len(n)
        /\ \A i \in DOMAIN d :
              /\ n[i] >= 1
              /\ n[i] = Cardinality({ j \in DOMAIN selected : b(j) = d[i] })
        /\ \A j \in DOMAIN selected : \E i \in DOMAIN d : d[i] = b(j)
        /\ \A i, k \in DOMAIN d : i < k => LexLess(d[i], d[k])
        /\ SumSeq(n) = Len(selected)

\* C8 witness: after a change, at least two buckets, one of them holding
\* more than one event.
C8_Witness ==
    /\ nchanges > 0
    /\ inbox = <<>>
    /\ Len(downloads_source.data.dates) >= 2
    /\ \E i \in DOMAIN downloads_source.data.downloads :
          downloads_source.data.downloads[i] >= 2

\* The filter states obtained by relaxing one filter of f.
Relaxations(f) ==
    { [f EXCEPT !.installer = "All"],
      [f EXCEPT !.platform = "All"],
      [f EXCEPT !.arch = "All"],
      [f EXCEPT !.start = start_default(installers)],
      [f EXCEPT !.end = end_default(installers)],
      [f EXCEPT !.start = start_default(installers),
                !.end = end_default(installers)] }

\* C9: the selected events are exactly those passing every active predicate
\* (range test and installer and platform and arch), in whatever order the
\* predicates are applied, and relaxing one filter never removes an event.
C9_FilterConjunction ==
    /\ Rows(selected) =
          { r \in Rows(installers) :
              /\ timestamp_ge_date(r.date, modelform.start)
              /\ timestamp_le_date(r.date, modelform.end)
              /\ EnumPredicates(modelform, r) }
    /\ selected =
          filter_start(
            filter_end(
              filter_installer(
                filter_platform(filter_arch(installers, modelform.arch),
                                modelform.platform),
                modelform.installer),
              modelform.end),
            modelform.start)
    /\ \A g \in Relaxations(modelform) :
          Rows(selected) \subseteq Rows(select_rows(installers, g))

\* C9 witness: two enum filters active, some event selected, and a
\* relaxation that adds an event.
C9_Witness ==
    /\ modelform.installer # "All"
    /\ modelform.platform # "All"
    /\ selected # <<>>
    /\ \E g \in Relaxations(modelform) :
          Rows(select_rows(installers, g)) # Rows(selected)

\* The values the log allows for an enum field.
ColumnValues(attrname) ==
    IF attrname = "installer" THEN {"All"} \cup { installers[i].event : i \in DOMAIN installers }
    ELSE IF attrname = "platform" THEN {"All"} \cup { installers[i].platform : i \in DOMAIN installers }
    ELSE IF attrname = "arch" THEN {"All"} \cup { installers[i].arch : i \in DOMAIN installers }
    ELSE {"daily", "monthly", "yearly"}

OutsideAllowed(msg) ==
    /\ msg.attrname \in {"installer", "platform", "arch", "resolution"}
    /\ msg.new \notin ColumnValues(msg.attrname)

\* C10: handling an update of installer, platform, arch or resolution to a
\* value outside its allowed set is refused and leaves the filter state and
\* both published datasets as they were.
C10_InvalidValueRejected ==
    [][ (inbox # <<>> /\ OutsideAllowed(Head(inbox)) /\ inbox' = Tail(inbox))
          => /\ error' = "ValueError"
             /\ UNCHANGED <<modelform, downloads_source, punchcard_source, selected>> ]_vars

\* C10 witness: a value was refused while a non-default filter state was in
\* effect.
C10_Witness ==
    /\ error = "ValueError"
    /\ modelform # InstallersModel(installers)
    /\ PublishedPair = PairOf(modelform)
====
